---- MODULE Spec2Model ----
(***************************************************************************)
(* The contact relay handler of api/contact/index.js (and its later        *)
(* revision with logging): parse the body, validate, read the Graph        *)
(* configuration, acquire a token, build the mail, POST it, map the        *)
(* outcome to context.res.                                                 *)
(***************************************************************************)
EXTENDS Integers, Sequences, FiniteSets, TLC

VARIABLES req, env, variant, pc, res, resCount, tokenCalls, tokenResult,
          sent, resp, textResult, log

vars == <<req, env, variant, pc, res, resCount, tokenCalls, tokenResult,
          sent, resp, textResult, log>>

(***************************************************************************)
(* Bounds of the model.                                                    *)
(***************************************************************************)
\* longest user text that is enumerated character by character
MaxLen == 2
\* longest run of characters put before and after a message near the cap
MaxPad == 1

(***************************************************************************)
(* Strings.  A string is pre \o FillChar^fill \o suf: two short character  *)
(* sequences around a run of `fill` copies of one ordinary character, so   *)
(* that a text of 5000 characters is a value of the model.                 *)
(***************************************************************************)
FillChar == "a"
Space == " "
Alphabet == {"&", "<", ">", "\"", Space, FillChar}

Str(pre, fill, suf) == [kind |-> "string", pre |-> pre, fill |-> fill, suf |-> suf]
S(seq) == Str(seq, 0, <<>>)
EmptyStr == S(<<>>)
\* JS undefined, and a truthy value that is no string (a JSON number such as 5)
Undefined == [kind |-> "undefined", pre |-> <<>>, fill |-> 0, suf |-> <<>>]
Number == [kind |-> "number", pre |-> <<>>, fill |-> 0, suf |-> <<>>]

IsString(v) == v.kind = "string"
StrLen(s) == Len(s.pre) + s.fill + Len(s.suf)
\* JS truthiness: undefined and "" are falsy, any other string and 5 are truthy
Truthy(v) ==
    CASE v.kind = "undefined" -> FALSE
      [] v.kind = "number" -> TRUE
      [] OTHER -> StrLen(v) > 0

RECURSIVE TrimStart(_)
TrimStart(seq) ==
    IF seq # <<>> /\ Head(seq) = Space THEN TrimStart(Tail(seq)) ELSE seq

RECURSIVE TrimEnd(_)
TrimEnd(seq) ==
    IF seq # <<>> /\ seq[Len(seq)] = Space
    THEN TrimEnd(SubSeq(seq, 1, Len(seq) - 1))
    ELSE seq

\* String.prototype.trim
Trim(s) ==
    IF s.fill > 0
    THEN Str(TrimStart(s.pre), s.fill, TrimEnd(s.suf))
    ELSE S(TrimEnd(TrimStart(s.pre \o s.suf)))

\* String.prototype.replaceAll(ch, ent) on a character sequence
RECURSIVE ReplaceAllSeq(_, _, _)
ReplaceAllSeq(seq, ch, ent) ==
    IF seq = <<>> THEN <<>>
    ELSE (IF Head(seq) = ch THEN ent ELSE <<Head(seq)>>)
         \o ReplaceAllSeq(Tail(seq), ch, ent)

\* FillChar is none of the replaced characters: the run is left alone
replaceAll(s, ch, ent) ==
    Str(ReplaceAllSeq(s.pre, ch, ent), s.fill, ReplaceAllSeq(s.suf, ch, ent))

AmpEntity == <<"&", "a", "m", "p", ";">>
LtEntity == <<"&", "l", "t", ";">>
GtEntity == <<"&", "g", "t", ";">>
QuotEntity == <<"&", "q", "u", "o", "t", ";">>

\* mutant of esc: the ampersand is replaced last, so entities are escaped twice
escAmpLast(s) ==
    replaceAll(replaceAll(replaceAll(replaceAll(s, "<", LtEntity),
        ">", GtEntity), "\"", QuotEntity), "&", AmpEntity)

\* esc: the four replaceAll passes in the order of the code
esc(s) ==
    replaceAll(replaceAll(replaceAll(replaceAll(s, "&", AmpEntity),
        "<", LtEntity), ">", GtEntity), "\"", QuotEntity)

(***************************************************************************)
(* Requests.                                                               *)
(***************************************************************************)
FieldNames == {"website", "name", "email", "phone", "message"}
NoFields == [k \in FieldNames |-> Undefined]

\* A body text by what the two decoders make of it.
Text(t, f) == [t |-> t, f |-> f]
NoText == Text("undefined", NoFields)      \* no text at all (undefined)
EmptyText == Text("empty", NoFields)       \* ""
FormText(f) == Text("form", f)             \* name=..&email=..
JsonObjectText(f) == Text("jsonobject", f) \* {"name": .., ..}
JsonNullText == Text("jsonnull", NoFields) \* null
JsonPrimText == Text("jsonprim", NoFields) \* 5, true, "x"
JsonArrayText == Text("jsonarray", NoFields) \* []
GarbageText == Text("garbage", NoFields)   \* neither JSON nor key=value pairs

\* req.body: undefined, a string, or an object the host has already parsed
BodyUndefined == [kind |-> "undefined", text |-> NoText, f |-> NoFields]
BodyString(text) == [kind |-> "string", text |-> text, f |-> NoFields]
BodyObject(f) == [kind |-> "object", text |-> NoText, f |-> f]
BodyNull == [kind |-> "null", text |-> NoText, f |-> NoFields]

\* what parseBody returns: a mapping of fields, or a JSON value that is none
Data(d, f) == [d |-> d, f |-> f]
EmptyMapping == Data("map", NoFields)

\* new URLSearchParams(text) then Object.fromEntries: every value is a string;
\* a text without key=value pairs of the form's fields yields none of them
URLSearchParams(text) ==
    IF text.t = "form" THEN Data("map", text.f) ELSE EmptyMapping

\* JSON.parse(text): TRUE in `throws` where the code's catch takes over
JSONparse(text) ==
    CASE text.t = "jsonobject" -> [throws |-> FALSE, v |-> Data("map", text.f)]
      [] text.t = "jsonnull" -> [throws |-> FALSE, v |-> Data("null", NoFields)]
      [] text.t = "jsonprim" -> [throws |-> FALSE, v |-> Data("prim", NoFields)]
      [] text.t = "jsonarray" -> [throws |-> FALSE, v |-> Data("array", NoFields)]
      [] OTHER -> [throws |-> TRUE, v |-> EmptyMapping]

\* parseBody: urlencoded by content type, else the parsed object, else JSON.parse
parseBody(r) ==
    IF r.ctype = "form"
    THEN URLSearchParams(IF r.body.kind = "string" THEN r.body.text ELSE EmptyText)
    ELSE IF r.body.kind = "object" THEN Data("map", r.body.f)
    ELSE LET p == JSONparse(IF r.rawBody.t \in {"undefined", "empty"}
                            THEN JsonObjectText(NoFields) ELSE r.rawBody)
         IN IF p.throws THEN EmptyMapping ELSE p.v

(***************************************************************************)
(* The handler's locals, as functions of the request and the environment.  *)
(***************************************************************************)
MaxMessageLength == 5000

EnvNames == {"TENANT_ID", "CLIENT_ID", "CLIENT_SECRET", "MAILBOX_ADDRESS"}
\* an unset (or empty) variable is falsy
Unset == ""
FallbackAddress == "jon@schneiderdrafting.com"

\* (v || "")
OrEmpty(v) == IF Truthy(v) THEN v ELSE EmptyStr
\* (v || "").trim() raises a TypeError when v is truthy and has no trim method
TrimThrows(v) == Truthy(v) /\ ~IsString(v)

TrimmedField(d, k) == Trim(OrEmpty(d.f[k]))

tenantId(e) == e["TENANT_ID"]
clientId(e) == e["CLIENT_ID"]
clientSecret(e) == e["CLIENT_SECRET"]
fromUser(e) == e["MAILBOX_ADDRESS"]

\* mutant of toAddress: the hard-coded address wins over the configured one
toAddressFallbackFirst(e) == FallbackAddress

toAddress(e) ==
    IF e["MAILBOX_ADDRESS"] # Unset THEN e["MAILBOX_ADDRESS"] ELSE FallbackAddress

\* mutant of MissingRequired: the message is not required
MissingRequiredNameEmail(d) ==
    \/ ~Truthy(TrimmedField(d, "name"))
    \/ ~Truthy(TrimmedField(d, "email"))

\* !name || !email || !message
MissingRequired(d) ==
    \/ ~Truthy(TrimmedField(d, "name"))
    \/ ~Truthy(TrimmedField(d, "email"))
    \/ ~Truthy(TrimmedField(d, "message"))

\* mutant of TooLong: the cap itself is already rejected
TooLongAtCap(d) == StrLen(TrimmedField(d, "message")) >= MaxMessageLength

\* message.length > 5000
TooLong(d) == StrLen(TrimmedField(d, "message")) > MaxMessageLength

\* mutant of MissingConfig: the mailbox address is not checked
MissingConfigNoMailbox(e) ==
    tenantId(e) = Unset \/ clientId(e) = Unset \/ clientSecret(e) = Unset

\* !tenantId || !clientId || !clientSecret || !fromUser
MissingConfig(e) ==
    tenantId(e) = Unset \/ clientId(e) = Unset \/ clientSecret(e) = Unset
        \/ fromUser(e) = Unset

\* mutant of Disposition: the honeypot is looked at after the required fields
DispositionHoneypotLate(d, e) ==
    IF d.d = "null" THEN "throw"
    ELSE IF \E k \in {"name", "email", "phone", "message"} : TrimThrows(d.f[k])
    THEN "throw"
    ELSE IF MissingRequired(d) THEN "missing"
    ELSE IF Truthy(d.f["website"]) THEN "honeypot"
    ELSE IF TooLong(d) THEN "toolong"
    ELSE IF MissingConfig(e) THEN "noconfig"
    ELSE "proceed"

\* The synchronous part of the handler, up to the first await: which exit it
\* takes.  Reading a property of null, or calling trim on a value that has
\* none, throws into the handler's catch.
Disposition(d, e) ==
    IF d.d = "null" THEN "throw"
    ELSE IF Truthy(d.f["website"]) THEN "honeypot"
    ELSE IF \E k \in {"name", "email", "phone", "message"} : TrimThrows(d.f[k])
    THEN "throw"
    ELSE IF MissingRequired(d) THEN "missing"
    ELSE IF TooLong(d) THEN "toolong"
    ELSE IF MissingConfig(e) THEN "noconfig"
    ELSE "proceed"

(***************************************************************************)
(* Responses and the outbound mail.                                        *)
(***************************************************************************)
Response(status, ok, message) ==
    [status |-> status, jsonBody |-> [ok |-> ok, message |-> message]]
NoResponse == Response(0, FALSE, "")

HoneypotResponse == Response(200, TRUE, "Thanks!")
MissingResponse == Response(400, FALSE, "Please include name, email, and message.")
TooLongResponse == Response(400, FALSE, "Message is too long.")
NoConfigResponse == Response(500, FALSE, "Mail service not configured.")
SentResponse == Response(200, TRUE, "Thanks! Your message has been sent.")

\* mutant of FailedResponse: the caught error's text goes into the reply
FailedResponseLeaky(err) == Response(500, FALSE, err)

\* the catch-all's reply: the same text whatever was caught
FailedResponse(err) ==
    Response(500, FALSE, "Send failed. Please email jon@schneiderdrafting.com.")

encodeURIComponent(s) == <<"uri", s>>

\* the HTML body, by its interpolated slots; the phone line is optional
html(d) ==
    [name |-> esc(TrimmedField(d, "name")),
     email |-> esc(TrimmedField(d, "email")),
     phone |-> IF Truthy(TrimmedField(d, "phone"))
               THEN <<esc(TrimmedField(d, "phone"))>> ELSE <<>>,
     message |-> esc(TrimmedField(d, "message"))]

mail(d, e) ==
    [subject |-> <<TrimmedField(d, "name"), TrimmedField(d, "email")>>,
     body |-> [contentType |-> "HTML", content |-> html(d)],
     toRecipients |-> <<toAddress(e)>>,
     replyTo |-> <<[address |-> TrimmedField(d, "email"),
                    name |-> TrimmedField(d, "name")]>>,
     saveToSentItems |-> TRUE]

\* the fetch call: url, Authorization bearer, JSON body
SendMailRequest(d, e, bearer) ==
    [url |-> encodeURIComponent(fromUser(e)), authorization |-> bearer,
     body |-> mail(d, e)]

\* resp.ok
ok(status) == status >= 200 /\ status <= 299

(***************************************************************************)
(* Inputs: requests, environments, and what the two collaborators answer.  *)
(***************************************************************************)
Seqs(chars, n) == UNION {[1..k -> chars] : k \in 0..n}
UserTexts == {S(q) : q \in Seqs(Alphabet, MaxLen)}
A == S(<<FillChar>>)
Blank == S(<<Space>>)

\* <script>&"</script>
ScriptText ==
    S(<<"<", "s", "c", "r", "i", "p", "t", ">", "&", "\"",
        "<", "/", "s", "c", "r", "i", "p", "t", ">">>)

Fields(w, n, e, p, m) ==
    [k \in FieldNames |->
        CASE k = "website" -> w [] k = "name" -> n [] k = "email" -> e
          [] k = "phone" -> p [] OTHER -> m]

\* every combination of absent, empty, blank, present and non-string fields
MatrixFields ==
    {Fields(w, n, e, p, m) :
        w \in {Undefined, EmptyStr, Blank, A, Number},
        n \in {Undefined, Blank, A, Number},
        e \in {Undefined, Blank, S(<<Space, FillChar, Space>>)},
        p \in {Undefined, A, Number},
        m \in {Undefined, Blank, A}}

\* one field carries any user text, the others a plain value
ProbeFields ==
    {Fields(Undefined, t, A, Undefined, A) : t \in UserTexts}
        \cup {Fields(Undefined, A, t, Undefined, A) : t \in UserTexts}
        \cup {Fields(Undefined, A, A, t, A) : t \in UserTexts}
        \cup {Fields(Undefined, A, A, Undefined, t) : t \in UserTexts \cup {ScriptText}}

\* messages around the cap, with and without surrounding blanks
CapFields ==
    {Fields(Undefined, A, A, Undefined, Str(pre, n, suf)) :
        pre \in Seqs({Space, "<"}, MaxPad), suf \in Seqs({Space, "<"}, MaxPad),
        n \in (MaxMessageLength - 2 * MaxPad)..(MaxMessageLength + 1)}

AllFields == MatrixFields \cup ProbeFields \cup CapFields
\* a form never carries anything but strings
StringFields == {f \in AllFields : \A k \in FieldNames : f[k].kind # "number"}

Request(ctype, body, rawBody) == [ctype |-> ctype, body |-> body, rawBody |-> rawBody]

Requests ==
    \* a posted form
    {Request("form", BodyString(FormText(f)), FormText(f)) : f \in StringFields}
    \* JSON the host has parsed, and JSON it has left as text
    \cup {Request("json", BodyObject(f), JsonObjectText(f)) : f \in AllFields}
    \cup {Request("json", BodyString(JsonObjectText(f)), JsonObjectText(f)) :
            f \in AllFields}
    \* bodies that are no form and no JSON object
    \cup {Request("none", BodyUndefined, NoText),
          Request("json", BodyString(EmptyText), EmptyText),
          Request("json", BodyString(GarbageText), GarbageText),
          Request("json", BodyNull, JsonNullText),
          Request("json", BodyString(JsonNullText), JsonNullText),
          Request("json", BodyString(JsonPrimText), JsonPrimText),
          Request("json", BodyObject(NoFields), JsonArrayText),
          Request("json", BodyString(JsonArrayText), JsonArrayText),
          Request("form", BodyObject(NoFields), NoText),
          Request("form", BodyString(GarbageText), GarbageText),
          Request("form", BodyString(JsonObjectText(Fields(Undefined, A, A, Undefined, A))),
                  JsonObjectText(Fields(Undefined, A, A, Undefined, A)))}

EnvValue(n) ==
    CASE n = "TENANT_ID" -> "tenant-guid"
      [] n = "CLIENT_ID" -> "client-id"
      [] n = "CLIENT_SECRET" -> "client-secret"
      [] OTHER -> "info@schneiderdrafting.com"
\* all four variables set, any one of them unset, or none set
Envs ==
    {[n \in EnvNames |-> IF n \in set THEN EnvValue(n) ELSE Unset] :
        set \in {x \in SUBSET EnvNames : Cardinality(x) # 1 /\ Cardinality(x) # 2}}

Variants == {"index", "part_000"}
\* getToken: rejects, resolves to nothing, to a token object without a token, to a token
TokenOutcomes == {"throws", "null", "emptyToken", "token"}
BearerToken == "eyJ0"
NoStatus == 0
\* fetch: rejects, or resolves to a response with a status
Statuses == {199, 202, 299, 300, 403}
FetchOutcomes ==
    {[throws |-> TRUE, status |-> NoStatus]}
        \cup {[throws |-> FALSE, status |-> s] : s \in Statuses}
\* resp.text(): rejects, or resolves to the provider's error body
ProviderBodies == {"ErrorAccessDenied", "ErrorInvalidUser"}
TextOutcomes == {"rejects"} \cup ProviderBodies

(***************************************************************************)
(* The handler.                                                            *)
(***************************************************************************)
Init ==
    /\ req \in Requests
    /\ env \in Envs
    /\ variant \in Variants
    /\ pc = "start"
    /\ res = NoResponse
    /\ resCount = 0
    /\ tokenCalls = 0
    /\ tokenResult = "none"
    /\ sent = <<>>
    /\ resp = NoStatus
    /\ textResult = "none"
    /\ log = <<>>

data == parseBody(req)
mailCalls == Len(sent)

\* context.res = r, the last statement of its path
Respond(r, entries) ==
    /\ res' = r
    /\ resCount' = resCount + 1
    /\ log' = log \o entries
    /\ pc' = "Responded"

\* mutant of Catch: the error is logged and thrown on, nothing is answered
CatchRethrow(err, entries) ==
    /\ log' = log \o entries \o <<<<"error", err>>>>
    /\ pc' = "Escaped"
    /\ UNCHANGED <<res, resCount>>

\* catch (err): log it, answer 500
Catch(err, entries) == Respond(FailedResponse(err), entries \o <<<<"error", err>>>>)

\* from the entry to the first await (or to an early return)
Start ==
    /\ pc = "start"
    /\ LET disp == Disposition(data, env) IN
        CASE disp = "throw" ->
                /\ Catch("TypeError", <<>>)
                /\ UNCHANGED <<tokenCalls>>
          [] disp = "honeypot" ->
                /\ Respond(HoneypotResponse, <<>>)
                /\ UNCHANGED <<tokenCalls>>
          [] disp = "missing" ->
                /\ Respond(MissingResponse, <<>>)
                /\ UNCHANGED <<tokenCalls>>
          [] disp = "toolong" ->
                /\ Respond(TooLongResponse, <<>>)
                /\ UNCHANGED <<tokenCalls>>
          [] disp = "noconfig" ->
                /\ Respond(NoConfigResponse, <<<<"error", "Missing Graph env vars.">>>>)
                /\ UNCHANGED <<tokenCalls>>
          [] OTHER ->
                /\ tokenCalls' = tokenCalls + 1
                /\ pc' = "awaitToken"
                /\ UNCHANGED <<res, resCount, log>>
    /\ UNCHANGED <<req, env, variant, tokenResult, sent, resp, textResult>>

\* what getToken resolved to, as token?.token
TokenOf(outcome) == IF outcome = "token" THEN BearerToken ELSE ""

\* mutant of Usable: the token object is tested, not the token in it
UsableObject(outcome) == outcome \in {"token", "emptyToken"}

\* !token?.token is false
Usable(outcome) == TokenOf(outcome) # ""

\* await credential.getToken(..) settles; on a token the mail is built and posted
GetTokenSettles ==
    /\ pc = "awaitToken"
    /\ \E outcome \in TokenOutcomes :
        /\ tokenResult' = outcome
        /\ CASE outcome = "throws" ->
                  /\ Catch("AADSTS7000215",
                           IF variant = "part_000"
                           THEN <<<<"error", "token error">>>> ELSE <<>>)
                  /\ UNCHANGED sent
             [] outcome # "throws" /\ ~Usable(outcome) ->
                  /\ Catch(IF variant = "part_000" THEN "No Graph token acquired"
                           ELSE "Failed to acquire Graph token", <<>>)
                  /\ UNCHANGED sent
             [] OTHER ->
                  /\ sent' = Append(sent, SendMailRequest(data, env, TokenOf(outcome)))
                  /\ pc' = "awaitFetch"
                  /\ UNCHANGED <<res, resCount, log>>
    /\ UNCHANGED <<req, env, variant, tokenCalls, resp, textResult>>

\* await fetch(..) settles
FetchSettles ==
    /\ pc = "awaitFetch"
    /\ \E outcome \in FetchOutcomes :
        CASE outcome.throws ->
                /\ Catch("fetch failed", <<>>)
                /\ UNCHANGED resp
          [] ~outcome.throws /\ ok(outcome.status) ->
                /\ resp' = outcome.status
                /\ Respond(SentResponse, <<>>)
          [] OTHER ->
                /\ resp' = outcome.status
                /\ pc' = "awaitText"
                /\ UNCHANGED <<res, resCount, log>>
    /\ UNCHANGED <<req, env, variant, tokenCalls, tokenResult, sent, textResult>>

\* the Error thrown for a non-ok response
SendFailedError(v, status) ==
    IF v = "part_000" THEN "Graph sendMail " \o ToString(status)
    ELSE "Email send failed."

\* await resp.text() settles: the earlier revision lets a rejection through to
\* the catch, the later one reads "" instead
TextSettles ==
    /\ pc = "awaitText"
    /\ \E outcome \in TextOutcomes :
        /\ textResult' = outcome
        /\ IF outcome = "rejects" /\ variant = "index"
           THEN Catch("body unusable", <<>>)
           ELSE LET text == IF outcome = "rejects" THEN "" ELSE outcome IN
                Catch(SendFailedError(variant, resp),
                      <<<<"error", "Graph sendMail failed", ToString(resp), text>>>>)
    /\ UNCHANGED <<req, env, variant, tokenCalls, tokenResult, sent, resp>>

Next == Start \/ GetTokenSettles \/ FetchSettles \/ TextSettles

Spec == Init /\ [][Next]_vars

(***************************************************************************)
(* Properties.                                                             *)
(***************************************************************************)
Responded == pc = "Responded"
website == data.f["website"]
name == data.f["name"]
email == data.f["email"]
phone == data.f["phone"]
message == data.f["message"]

\* a string of nothing but blanks (the empty string included)
AllBlank(v) ==
    /\ v.fill = 0
    /\ \A i \in 1..Len(v.pre) : v.pre[i] = Space
    /\ \A i \in 1..Len(v.suf) : v.suf[i] = Space
\* absent, empty, or whitespace-only
Missing(v) == v.kind = "undefined" \/ (IsString(v) /\ AllBlank(v))
Present(v) == IsString(v) /\ ~AllBlank(v)
\* the body was decoded to a mapping whose fields, where present, are strings
IsSubmission == data.d = "map" /\ \A k \in FieldNames : data.f[k].kind # "number"
HoneypotEmpty == website.kind = "undefined" \/ website = EmptyStr
AnyUnset == \E n \in EnvNames : env[n] = Unset
NoOutboundCall == tokenCalls = 0 /\ mailCalls = 0
\* honeypot empty, required fields present, message within the cap after trimming
ValidSubmission ==
    /\ IsSubmission /\ HoneypotEmpty
    /\ Present(name) /\ Present(email) /\ Present(message)
    /\ StrLen(Trim(message)) <= MaxMessageLength

\* C1: a non-empty website field, whatever the other fields and the
\* configuration, is answered 200 ok:true, and neither a token acquisition nor
\* a mail send happens in that invocation.
C1_HoneypotSilent ==
    (data.d = "map" /\ IsString(website) /\ StrLen(website) > 0)
        => /\ NoOutboundCall
           /\ pc \in {"start", "Responded"}
           /\ Responded => res.status = 200 /\ res.jsonBody.ok = TRUE

C1_Witness ==
    /\ Responded /\ IsString(website) /\ StrLen(website) > 0
    /\ name = Number /\ Missing(message) /\ AnyUnset
    /\ res = HoneypotResponse

\* C2: with an empty honeypot, a submission in which name, email or message
\* is absent, empty or whitespace-only is answered 400 ok:false, and no token
\* acquisition and no mail send is attempted.
C2_MissingRejected ==
    (IsSubmission /\ HoneypotEmpty
        /\ (Missing(name) \/ Missing(email) \/ Missing(message)))
        => /\ NoOutboundCall
           /\ pc \in {"start", "Responded"}
           /\ Responded => res.status = 400 /\ res.jsonBody.ok = FALSE

C2_Witness ==
    /\ Responded /\ IsSubmission /\ HoneypotEmpty
    /\ Present(name) /\ Present(email) /\ message = Blank
    /\ ~AnyUnset
    /\ res = MissingResponse /\ tokenCalls = 0

\* C3 as stated (configuration complete): a submitted message longer than
\* 5000 is answered 400 and no token is acquired for it; one of exactly 5000
\* is not answered 400.
C3_SubmittedLengthCap ==
    (IsSubmission /\ HoneypotEmpty /\ Present(name) /\ Present(email)
        /\ Present(message) /\ ~AnyUnset)
        => /\ StrLen(message) > MaxMessageLength
                => /\ tokenCalls = 0
                   /\ Responded => res.status = 400 /\ res.jsonBody.ok = FALSE
           /\ (StrLen(message) = MaxMessageLength /\ Responded) => res.status # 400

\* C3 as amended: the cap applies to the message after trimming.  A trimmed
\* length above 5000 is answered 400 ok:false with no outbound call; a
\* trimmed length of at most 5000 (5000 included) is never answered 400, and
\* with complete configuration it proceeds to one token acquisition and, once
\* a token is there, to one mail send.
C3_TrimmedLengthCap ==
    (IsSubmission /\ HoneypotEmpty /\ Present(name) /\ Present(email)
        /\ Present(message))
        => /\ StrLen(Trim(message)) > MaxMessageLength
                => /\ NoOutboundCall
                   /\ pc \in {"start", "Responded"}
                   /\ Responded => res = TooLongResponse
           /\ StrLen(Trim(message)) <= MaxMessageLength
                => /\ Responded => res.status # 400
                   /\ (~AnyUnset /\ pc # "start") => tokenCalls = 1
                   /\ tokenResult = "token" => mailCalls = 1

C3_Witness ==
    /\ Responded /\ ValidSubmission
    /\ StrLen(Trim(message)) = MaxMessageLength
    /\ StrLen(message) > MaxMessageLength
    /\ mailCalls = 1 /\ res = SentResponse

\* C4 as stated: with any configuration variable unset, every request is
\* answered 500 ok:false, without a token acquisition.
C4_EveryRequest500 ==
    (AnyUnset /\ Responded)
        => res.status = 500 /\ res.jsonBody.ok = FALSE /\ tokenCalls = 0

\* C4 as amended: with any configuration variable unset, no request leads to
\* a token acquisition or a mail send, and every request that passes
\* validation (empty honeypot, required fields present, message within the
\* cap) is answered 500 ok:false "Mail service not configured."; honeypot and
\* validation answers come first.
C4_ValidatedRequest500 ==
    AnyUnset
        => /\ NoOutboundCall
           /\ pc \in {"start", "Responded"}
           /\ (Responded /\ ValidSubmission) => res = NoConfigResponse

C4_Witness ==
    /\ Responded /\ ValidSubmission
    /\ env["MAILBOX_ADDRESS"] = Unset
    /\ \A n \in EnvNames \ {"MAILBOX_ADDRESS"} : env[n] # Unset
    /\ res = NoConfigResponse /\ tokenCalls = 0

\* the 2xx statuses
Success(status) == status \in 200..299
SendAttempted == ValidSubmission /\ ~AnyUnset /\ tokenResult = "token"

\* C5: a valid submission, complete configuration, a token and a 2xx answer
\* of the mail API give 200 ok:true and exactly one mail-send call, to the one
\* recipient MAILBOX_ADDRESS (not the hard-coded fallback), with the
\* submitter's trimmed email as the one reply-to address.
C5_ValidSubmissionSent ==
    (SendAttempted /\ Responded /\ Success(resp))
        => /\ res.status = 200 /\ res.jsonBody.ok = TRUE
           /\ mailCalls = 1
           /\ sent[1].body.toRecipients = <<env["MAILBOX_ADDRESS"]>>
           /\ sent[1].body.toRecipients[1] # FallbackAddress
           /\ Len(sent[1].body.replyTo) = 1
           /\ sent[1].body.replyTo[1].address = Trim(email)
           /\ ~AllBlank(sent[1].body.replyTo[1].address)

C5_Witness ==
    /\ SendAttempted /\ Responded /\ resp = 202
    /\ email = S(<<Space, FillChar, Space>>)
    /\ sent[1].body.replyTo[1].address = A
    /\ res = SentResponse

\* C6: when the mail API answers a valid submission with a non-2xx status,
\* the reply is 500 ok:false with the same generic text whatever the
\* provider's error body is, also when that body cannot be read.
C6_GenericFailure ==
    (SendAttempted /\ Responded /\ resp # NoStatus /\ ~Success(resp))
        => /\ res.status = 500 /\ res.jsonBody.ok = FALSE
           /\ res.jsonBody.message
                = "Send failed. Please email jon@schneiderdrafting.com."
           /\ res.jsonBody.message \notin ProviderBodies
           /\ textResult \in TextOutcomes

C6_Witness ==
    /\ SendAttempted /\ Responded /\ resp = 403
    /\ textResult = "rejects" /\ variant = "index"
    /\ res.status = 500

\* C7: every invocation answers exactly once.  While it is handling,
\* context.res is unassigned and every pending await can settle (the handler
\* is nowhere but at its entry, at an await or done); once it has responded,
\* context.res was assigned once, to a status of 200, 400 or 500 with a body
\* {ok, message} where ok is true exactly for 200, and nothing follows.
C7_RespondedExactlyOnce ==
    /\ pc \in {"start", "awaitToken", "awaitFetch", "awaitText", "Responded"}
    /\ ~Responded => resCount = 0 /\ res = NoResponse
    /\ pc \in {"awaitToken", "awaitFetch", "awaitText"} => ENABLED Next
    /\ Responded
        => /\ resCount = 1
           /\ res.status \in {200, 400, 500}
           /\ DOMAIN res.jsonBody = {"ok", "message"}
           /\ res.jsonBody.ok \in BOOLEAN
           /\ res.jsonBody.message \in STRING
           /\ res.jsonBody.ok <=> res.status = 200
           /\ ~ENABLED Next

C7_Witness ==
    /\ Responded /\ resCount = 1
    /\ data.d = "map" /\ HoneypotEmpty /\ phone = Number
    /\ res.status = 500 /\ tokenCalls = 0 /\ ~AnyUnset

\* C8: a body that is neither form data nor a JSON object of fields is
\* treated as a submission without fields and answered 400, never 500.
Undecodable ==
    IF req.ctype = "form"
    THEN ~(req.body.kind = "string" /\ req.body.text.t = "form")
    ELSE req.body.kind # "object" /\ req.rawBody.t # "jsonobject"

C8_UndecodableRejected400 ==
    (Undecodable /\ Responded) => res.status = 400 /\ res.jsonBody.ok = FALSE

\* C8's sound part: every such body but JSON null is decoded to a value
\* without fields and answered 400.
C8_NonNullUndecodable ==
    (Undecodable /\ req.rawBody.t # "jsonnull" /\ Responded)
        => data.f = NoFields /\ res = MissingResponse

\* C9: esc replaces each & < > " by its entity, once: the slots of the HTML
\* body hold the character-by-character escape of the trimmed fields, with no
\* raw < > " and every & the start of an entity.
EntityOf(c) ==
    CASE c = "&" -> AmpEntity [] c = "<" -> LtEntity [] c = ">" -> GtEntity
      [] c = "\"" -> QuotEntity [] OTHER -> <<c>>

RECURSIVE Charwise(_)
Charwise(seq) ==
    IF seq = <<>> THEN <<>> ELSE EntityOf(Head(seq)) \o Charwise(Tail(seq))

Escaped(s) == Str(Charwise(s.pre), s.fill, Charwise(s.suf))

StartsEntity(seq, i) ==
    \E ent \in {AmpEntity, LtEntity, GtEntity, QuotEntity} :
        /\ i + Len(ent) - 1 <= Len(seq)
        /\ SubSeq(seq, i, i + Len(ent) - 1) = ent

SafeSeq(seq) ==
    \A i \in 1..Len(seq) :
        /\ seq[i] \notin {"<", ">", "\""}
        /\ seq[i] = "&" => StartsEntity(seq, i)

Safe(s) == SafeSeq(s.pre) /\ SafeSeq(s.suf)

C9_BodyEscaped ==
    mailCalls = 1
        => LET c == sent[1].body.body.content IN
           /\ c.name = Escaped(Trim(name)) /\ Safe(c.name)
           /\ c.email = Escaped(Trim(email)) /\ Safe(c.email)
           /\ c.message = Escaped(Trim(message)) /\ Safe(c.message)
           /\ c.phone = IF Present(phone) THEN <<Escaped(Trim(phone))>> ELSE <<>>
           /\ \A i \in 1..Len(c.phone) : Safe(c.phone[i])

C9_Witness ==
    /\ mailCalls = 1 /\ message = ScriptText
    /\ sent[1].body.body.content.message.pre
         = LtEntity \o <<"s", "c", "r", "i", "p", "t">> \o GtEntity
             \o AmpEntity \o QuotEntity
             \o LtEntity \o <<"/", "s", "c", "r", "i", "p", "t">> \o GtEntity

\* C10: the mail is posted only after getToken has returned a non-empty
\* token; when getToken throws or returns no usable token no mail is posted
\* and the answer is 500 ok:false; at most one token acquisition and one
\* mail-send call happen per invocation.
C10_TokenBeforeMail ==
    /\ tokenCalls <= 1 /\ mailCalls <= 1
    /\ pc \in {"awaitToken", "awaitFetch", "awaitText"} => tokenCalls = 1
    /\ pc = "awaitToken" => tokenResult = "none" /\ mailCalls = 0
    /\ mailCalls = 1
        => /\ tokenCalls = 1 /\ tokenResult = "token"
           /\ sent[1].authorization # ""
    /\ tokenResult \in {"throws", "null", "emptyToken"}
        => /\ mailCalls = 0 /\ Responded
           /\ res.status = 500 /\ res.jsonBody.ok = FALSE

C10_Witness ==
    /\ tokenResult = "emptyToken" /\ Responded /\ mailCalls = 0
    /\ tokenCalls = 1 /\ res.status = 500

====
